---------------------------- MODULE Spec2Model ----------------------------
(***************************************************************************)
(* Clustering and topic-hierarchy engine of the keyword research workers.  *)
(*                                                                         *)
(*   AdvancedClusteringWorker  apps/workers/src/advanced_clustering.py     *)
(*   ClusterWorker             apps/workers/src/cluster_worker.py          *)
(*                                                                         *)
(* One call of one entry point is one behaviour: Init holds the arguments  *)
(* of the call, every action is one stage (one awaited call) of the        *)
(* function, and pc = "done" is the state in which the call has returned   *)
(* or raised.  What the libraries compute from the opaque embedding        *)
(* vectors (label arrays, similarity values, scores, the vocabulary) is    *)
(* drawn nondeterministically within the library's documented contract.    *)
(***************************************************************************)
EXTENDS Integers, Sequences, FiniteSets, TLC

(***************************************************************************)
(* Bounds of the model.                                                    *)
(***************************************************************************)
\* longest label array handed to the cluster object builders on their own
MaxLen == 4
\* largest label value in those arrays (labels range over -1 .. MaxLabel)
MaxLabel == 2
\* largest keyword batch of an engine run
MaxKw == 10
\* largest cluster count requested by the caller of an engine run
MaxK == 3
\* batches up to this size get every label array; longer ones get the
\* arrays up to a permutation of the keyword positions
FreeLen == 3
\* largest vocabulary the vectorizer extracts (0 = empty vocabulary)
MaxVocab == 1
\* longest cluster list handed to the hierarchy builder on its own
MaxClusters == 3
\* largest cluster size in those lists
MaxSize == 2
\* largest batch handed to the estimator on its own
MaxEstN == 25
\* largest inertia and largest silhouette of a trial partition
MaxScore == 2
\* the dominant topics of a decomposition are among the first MaxTopic
MaxTopic == 3
MaxLevels == 5
MaxTexts == 2

(***************************************************************************)
(* Program constants.                                                      *)
(***************************************************************************)
NOISE == -1
REFINE_MIN_SIZE == 5
REFINE_MAX_TOPICS == 3
DEFAULT_N_TOPICS == 10
MODEL_MAX_TOPICS == 10
MODEL_TOPIC_DIVISOR == 10
TOP_WORDS == 10
EST_MAX_CLUSTERS == 20
EST_DIVISOR == 5
EST_MIN_K == 2
EST_FALLBACK == 5
GROUP_THRESHOLD == 70
REGROUP_THRESHOLD == 60

\* absent values: a missing dictionary key, None
NoId == 0
NoTopic == -1
None == 0

(***************************************************************************)
(* Sequences and arithmetic.                                               *)
(***************************************************************************)
Min(a, b) == IF a <= b THEN a ELSE b

Range(s) == {s[i] : i \in DOMAIN s}

RECURSIVE SeqSum(_)
SeqSum(s) == IF s = <<>> THEN 0 ELSE Head(s) + SeqSum(Tail(s))

RECURSIVE SortedSeq(_)
SortedSeq(S) ==
    IF S = {} THEN <<>>
    ELSE LET m == CHOOSE x \in S : \A y \in S : x <= y
         IN  <<m>> \o SortedSeq(S \ {m})

\* np.where(cluster_labels == label)[0]: the positions holding label, ascending
Where(labs, l) == SortedSeq({i \in DOMAIN labs : labs[i] = l})

\* np.unique(cluster_labels): the distinct labels, ascending
Unique(labs) == SortedSeq(Range(labs))


(***************************************************************************)
(* State of one call.                                                      *)
(***************************************************************************)
VARIABLES
    entry,          \* the function that was called
    pc,             \* the stage the call has reached
    method,         \* argument: the strategy selector
    n_clusters,     \* argument: the requested cluster count, None when absent
    keywords,       \* the keyword records of the batch (dicts, mutated in place)
    labels,         \* cluster_labels: the label array of the assignment step
    clusters,       \* the cluster list built so far
    semantic,       \* _hybrid_clustering: semantic_clusters
    cluster_groups, \* _build_cluster_hierarchy: the levels of groups
    hierarchy,      \* the hierarchy dictionary
    topic_model,    \* the TopicModel
    metrics,        \* the metrics / metadata dictionary
    outcome,        \* "running", "returned" or "raised"
    error,          \* the exception that was raised or handled
    calls,          \* how often the collaborators were invoked
    next_id,        \* the next fresh uuid4
    est,            \* _estimate_optimal_clusters: its locals
    vocabulary,     \* how many terms the vectorizer finds in the batch texts
    result,         \* the returned dictionary
    grouping,       \* _group_similar_clusters: the centroids and current_level
    rerun,          \* the second of two runs on the same batch
    distance_threshold  \* argument: the linkage distance to merge down to, None when absent

vars == <<entry, pc, method, n_clusters, keywords, labels, clusters, semantic,
          cluster_groups, hierarchy, topic_model, metrics, outcome, error,
          calls, next_id, est, vocabulary, result, grouping, rerun,
          distance_threshold>>

\* a keyword dict as the caller hands it in: no annotation keys yet
FreshKeyword == [cluster_id |-> NoId, cluster_label |-> NoId, topic_id |-> NoTopic]

FreshKeywords(n) == [p \in 1..n |-> FreshKeyword]

NoCalls == [embed |-> 0, estimator |-> 0, clustering |-> 0, silhouette |-> 0,
            logged |-> 0]

\* _group_similar_clusters not entered
NoGrouping == [centroids |-> <<>>, current_level |-> <<>>]

\* no second run
NoRerun == [ran |-> FALSE]

NoError == [kind |-> "none", stage |-> "none"]

NoEst == [n |-> 0, inertias |-> <<>>, silhouettes |-> <<>>, fails |-> FALSE,
          elbow_k |-> None, best_silhouette_k |-> None, k |-> None]

(***************************************************************************)
(* Cluster Object Builder.                                                 *)
(***************************************************************************)
\* the non-noise labels in the order the builder visits them
ClusterLabels_KeepNoise(labs) == Unique(labs)

ClusterLabels(labs) == SelectSeq(Unique(labs), LAMBDA l : l # NOISE)

\* AdvancedClusteringWorker._create_cluster_objects: the cluster list.  The
\* centroid is the mean of the embedding rows of the members; it is kept as
\* the rows it averages and valued where the hierarchy builder reads it.
CreateClusterObjects(labs, firstId) ==
    LET ls == ClusterLabels(labs)
    IN  [i \in 1..Len(ls) |->
            [id           |-> firstId + i - 1,
             label        |-> firstId + i - 1,
             members      |-> Where(labs, ls[i]),
             size         |-> Len(Where(labs, ls[i])),
             has_centroid |-> TRUE,
             topic_id     |-> NoTopic,
             topic_words  |-> 0,
             refined      |-> FALSE,
             sub_topics   |-> <<>>]]

\* the write-back loops of the builders: every keyword_data record of every
\* cluster gets the cluster's id and label, in list order
RECURSIVE AssignKeywords_KeepFirst(_, _)
AssignKeywords_KeepFirst(kws, cls) ==
    IF cls = <<>> THEN kws
    ELSE LET c == Head(cls)
         IN  AssignKeywords_KeepFirst(
                 [p \in DOMAIN kws |->
                     IF p \in Range(c.members) /\ kws[p].cluster_id = NoId
                     THEN [cluster_id    |-> c.id,
                           cluster_label |-> c.label,
                           topic_id      |-> IF c.topic_id # NoTopic
                                             THEN c.topic_id ELSE kws[p].topic_id]
                     ELSE kws[p]],
                 Tail(cls))

RECURSIVE AssignKeywords(_, _)
AssignKeywords(kws, cls) ==
    IF cls = <<>> THEN kws
    ELSE LET c == Head(cls)
         IN  AssignKeywords(
                 [p \in DOMAIN kws |->
                     IF p \in Range(c.members)
                     THEN [cluster_id    |-> c.id,
                           cluster_label |-> c.label,
                           topic_id      |-> IF c.topic_id # NoTopic
                                             THEN c.topic_id ELSE kws[p].topic_id]
                     ELSE kws[p]],
                 Tail(cls))

\* ClusterWorker._create_cluster_objects.  set(cluster_labels) is visited in
\* hash order, which for the small integers of a label array is ascending;
\* no key of a keyword record is written.
WorkerCreateClusterObjects(labs, firstId) ==
    LET ls == SelectSeq(Unique(labs), LAMBDA l : l # NOISE)
    IN  [i \in 1..Len(ls) |->
            [id             |-> firstId + i - 1,
             label          |-> firstId + i - 1,
             members        |-> Where(labs, ls[i]),
             has_centroid   |-> TRUE,
             total_keywords |-> Len(Where(labs, ls[i]))]]

(***************************************************************************)
(* The builders called on their own, on every label array.                 *)
(***************************************************************************)
LabelArrays == UNION {[1..n -> NOISE..MaxLabel] : n \in 0..MaxLen}

InitBuilder ==
    /\ entry \in {"_create_cluster_objects", "ClusterWorker._create_cluster_objects"}
    /\ pc = "start"
    /\ labels \in LabelArrays
    /\ keywords = FreshKeywords(Len(labels))
    /\ method = "" /\ n_clusters = None
    /\ clusters = <<>> /\ semantic = <<>> /\ cluster_groups = <<>>
    /\ hierarchy = None /\ topic_model = None /\ metrics = None
    /\ outcome = "running" /\ error = NoError
    /\ grouping = NoGrouping /\ rerun = NoRerun
    /\ distance_threshold = None
    /\ calls = NoCalls /\ next_id = 1 /\ est = NoEst /\ vocabulary = 0
    /\ result = None

BuildClusters ==
    /\ entry = "_create_cluster_objects" /\ pc = "start"
    /\ clusters' = CreateClusterObjects(labels, next_id)
    /\ keywords' = AssignKeywords(keywords, clusters')
    /\ next_id' = next_id + Len(clusters')
    /\ pc' = "done" /\ outcome' = "returned"
    /\ UNCHANGED <<grouping, rerun, distance_threshold>>
    /\ UNCHANGED <<entry, method, n_clusters, labels, semantic, cluster_groups,
                   hierarchy, topic_model, metrics, error, calls, est,
                   vocabulary, result>>

WorkerBuildClusters ==
    /\ entry = "ClusterWorker._create_cluster_objects" /\ pc = "start"
    /\ clusters' = WorkerCreateClusterObjects(labels, next_id)
    /\ next_id' = next_id + Len(clusters')
    /\ pc' = "done" /\ outcome' = "returned"
    /\ UNCHANGED <<grouping, rerun, distance_threshold>>
    /\ UNCHANGED <<entry, method, n_clusters, keywords, labels, semantic,
                   cluster_groups, hierarchy, topic_model, metrics, error, calls,
                   est, vocabulary, result>>

NextBuilder == BuildClusters \/ WorkerBuildClusters

SpecBuilder == InitBuilder /\ [][NextBuilder]_vars

\* how many (cluster, place) pairs of a cluster list hold keyword position p
Memberships(cls, p) ==
    Cardinality({ij \in UNION {{i} \X DOMAIN cls[i].members : i \in DOMAIN cls} :
                    cls[ij[1]].members[ij[2]] = p})

\* C1: the clusters a builder returns partition the non-noise keywords: one
\* cluster per distinct non-noise label, holding exactly the keywords of that
\* label; no cluster is empty; a keyword whose label is not -1 is a member
\* exactly once; a keyword labelled -1 is a member of no cluster.
C1_Partition ==
    (pc = "done" /\ entry \in {"_create_cluster_objects",
                               "ClusterWorker._create_cluster_objects"}) =>
        /\ Len(clusters) = Cardinality(Range(labels) \ {NOISE})
        /\ \A l \in Range(labels) \ {NOISE} :
              Cardinality({i \in DOMAIN clusters :
                  Range(clusters[i].members) = {p \in DOMAIN labels : labels[p] = l}}) = 1
        /\ \A i \in DOMAIN clusters : Len(clusters[i].members) >= 1
        /\ \A p \in DOMAIN labels :
              Memberships(clusters, p) = IF labels[p] = NOISE THEN 0 ELSE 1

C1_Witness ==
    /\ pc = "done" /\ entry = "_create_cluster_objects"
    /\ NOISE \in Range(labels)
    /\ Cardinality(Range(labels) \ {NOISE}) = 2
    /\ Len(clusters) = 2
    /\ \E i \in DOMAIN clusters : Len(clusters[i].members) = 2


(***************************************************************************)
(* Hierarchy Builder.                                                      *)
(***************************************************************************)
\* The centroid vectors the model draws from, in tenths: the similarity of
\* two centroids is their dot product, in hundredths.
Centroids == {<<10, 0>>, <<7, 5>>, <<6, 5>>, <<0, 10>>}

\* an engine run draws from two of them, the hierarchy builder on its own
\* from all
BatchCentroids == {<<10, 0>>, <<7, 5>>}

CentroidsOf(e) == IF e = "_build_cluster_hierarchy" THEN Centroids ELSE BatchCentroids

Dot(u, v) == u[1] * v[1] + u[2] * v[2]

RECURSIVE VecSum(_)
VecSum(vs) ==
    IF vs = <<>> THEN <<0, 0>>
    ELSE LET r == VecSum(Tail(vs)) IN <<Head(vs)[1] + r[1], Head(vs)[2] + r[2]>>

RECURSIVE Concat(_)
Concat(ss) == IF ss = <<>> THEN <<>> ELSE Head(ss) \o Concat(Tail(ss))

\* One greedy pass over items 1..n, from item i on: an item not yet used
\* seeds a group and takes every later unused item that is similar to it.
\* The result is the list of groups, each a list of items, seed first.
RECURSIVE GreedyPass_Reuse(_, _, _, _)
GreedyPass_Reuse(i, n, used, similar) ==
    IF i > n THEN <<>>
    ELSE IF i \in used THEN GreedyPass_Reuse(i + 1, n, used, similar)
    ELSE LET joined == {j \in 1..n : j # i /\ similar[<<i, j>>]}
         IN  <<(<<i>> \o SortedSeq(joined))>>
                 \o GreedyPass_Reuse(i + 1, n, used \cup {i} \cup joined, similar)

RECURSIVE GreedyPass(_, _, _, _)
GreedyPass(i, n, used, similar) ==
    IF i > n THEN <<>>
    ELSE IF i \in used THEN GreedyPass(i + 1, n, used, similar)
    ELSE LET joined == {j \in 1..n : j \notin used /\ j # i /\ similar[<<i, j>>]}
         IN  <<(<<i>> \o SortedSeq(joined))>>
                 \o GreedyPass(i + 1, n, used \cup {i} \cup joined, similar)

\* _group_similar_clusters, the pass over the clusters: groups of cluster
\* positions, merged when the dot product of the centroids exceeds 0.7
FirstGroups(cent) ==
    LET n == Len(cent)
        similar == [ij \in (1..n) \X (1..n) |->
                       Dot(cent[ij[1]], cent[ij[2]]) > GROUP_THRESHOLD]
    IN  GreedyPass(1, n, {}, similar)

\* the centroid of a group is the mean of its clusters' centroids; the dot
\* product of two means exceeds 0.6 iff the dot product of the two sums
\* exceeds 0.6 times the product of the group sizes
GroupsSimilar_AtLeast(cent, g, h) ==
    Dot(VecSum([a \in DOMAIN g |-> cent[g[a]]]), VecSum([a \in DOMAIN h |-> cent[h[a]]]))
        >= REGROUP_THRESHOLD * Len(g) * Len(h)

GroupsSimilar(cent, g, h) ==
    Dot(VecSum([a \in DOMAIN g |-> cent[g[a]]]), VecSum([a \in DOMAIN h |-> cent[h[a]]]))
        > REGROUP_THRESHOLD * Len(g) * Len(h)

\* _group_cluster_groups: the next level, or the empty list when nothing
\* is left to merge or the pass merged nothing
GroupClusterGroups_NoReductionTest(cent, groups) ==
    IF Len(groups) <= 1 THEN <<>>
    ELSE LET n == Len(groups)
             similar == [ij \in (1..n) \X (1..n) |->
                            GroupsSimilar(cent, groups[ij[1]], groups[ij[2]])]
             merged == GreedyPass(1, n, {}, similar)
         IN  [a \in DOMAIN merged |->
                 Concat([b \in DOMAIN merged[a] |-> groups[merged[a][b]]])]

GroupClusterGroups(cent, groups) ==
    IF Len(groups) <= 1 THEN <<>>
    ELSE LET n == Len(groups)
             similar == [ij \in (1..n) \X (1..n) |->
                            GroupsSimilar(cent, groups[ij[1]], groups[ij[2]])]
             merged == GreedyPass(1, n, {}, similar)
             new_groups == [a \in DOMAIN merged |->
                               Concat([b \in DOMAIN merged[a] |-> groups[merged[a][b]]])]
         IN  IF Len(new_groups) < Len(groups) THEN new_groups ELSE <<>>

\* the while loop of _group_similar_clusters
RECURSIVE Levels(_, _)
Levels(cent, current_level) ==
    IF current_level = <<>> THEN <<>>
    ELSE <<current_level>> \o Levels(cent, GroupClusterGroups(cent, current_level))

GroupSimilarClusters(cent) == Levels(cent, FirstGroups(cent))

\* the size of the root node
RootSize_Count(cls) == Len(cls)

RootSize(cls) == SeqSum([i \in DOMAIN cls |-> cls[i].size])

\* the nodes of one level, numbered by the length of the hierarchy dict
LevelNodes(cls, level, groups, len) ==
    [a \in DOMAIN groups |->
        [id       |-> <<level, len + a - 1>>,
         children |-> [b \in DOMAIN groups[a] |-> cls[groups[a][b]].id],
         level    |-> level,
         size     |-> SeqSum([b \in DOMAIN groups[a] |-> cls[groups[a][b]].size])]]

RECURSIVE HierarchyNodes(_, _, _, _)
HierarchyNodes(cls, levels, level, len) ==
    IF level > Len(levels) THEN <<>>
    ELSE LevelNodes(cls, level, levels[level], len)
             \o HierarchyNodes(cls, levels, level + 1, len + Len(levels[level]))

\* _build_cluster_hierarchy: the dictionary it returns, the root entry and
\* the group nodes in the order they were added
BuildClusterHierarchy(cls, levels) ==
    LET nodes == HierarchyNodes(cls, levels, 1, 1)
    IN  [root  |-> [id       |-> "root",
                    children |-> [a \in DOMAIN nodes |-> nodes[a].id],
                    level    |-> 0,
                    size     |-> RootSize(cls)],
         nodes |-> nodes]

\* cluster['centroid'] raises KeyError for a cluster without the key
CentroidsMissing(cls) == \E i \in DOMAIN cls : ~cls[i].has_centroid


(***************************************************************************)
(* Optimal-Cluster Estimator.                                              *)
(***************************************************************************)
\* np.argmax: the first position (from 1) of the largest element
ArgMax_Last(s) == CHOOSE i \in DOMAIN s :
    /\ \A j \in DOMAIN s : s[j] <= s[i]
    /\ \A j \in DOMAIN s : j > i => s[j] < s[i]

ArgMax(s) == CHOOSE i \in DOMAIN s :
                 /\ \A j \in DOMAIN s : s[j] <= s[i]
                 /\ \A j \in DOMAIN s : j < i => s[j] < s[i]

\* np.diff(np.diff(inertias))
SecondDerivative(inertias) ==
    [j \in 1..(Len(inertias) - 2) |->
        (inertias[j + 2] - inertias[j + 1]) - (inertias[j + 1] - inertias[j])]

\* _find_elbow_point over k_range = 2..max_clusters.  np.argmax of an empty
\* array raises, which the function turns into 5.  elbow_idx counts from 0.
FindElbowPoint(max_clusters, inertias) ==
    LET second_derivative == SecondDerivative(inertias)
        len == max_clusters - 1
    IN  IF second_derivative = <<>> THEN EST_FALLBACK
        ELSE LET elbow_idx == (ArgMax(second_derivative) - 1) + 2
             IN  IF elbow_idx < len THEN EST_MIN_K + elbow_idx ELSE max_clusters

MaxClustersFor(n) == Min(EST_MAX_CLUSTERS, n \div EST_DIVISOR)

\* the choice between the two candidates
ChooseK_Larger(elbow_k, best_silhouette_k) ==
    IF elbow_k >= best_silhouette_k THEN elbow_k ELSE best_silhouette_k

ChooseK(elbow_k, best_silhouette_k) == Min(elbow_k, best_silhouette_k)

\* _estimate_optimal_clusters on n embedding rows; fails says that KMeans or
\* silhouette_score raised for some candidate
EstimateOptimalClusters(n, inertias, silhouette_scores, fails) ==
    LET max_clusters == MaxClustersFor(n)
    IN  IF max_clusters < EST_MIN_K THEN EST_MIN_K
        ELSE IF fails THEN EST_FALLBACK
        ELSE ChooseK(FindElbowPoint(max_clusters, inertias),
                     EST_MIN_K + (ArgMax(silhouette_scores) - 1))

\* what the trial partitions may score: one inertia and one silhouette per
\* candidate k, and whether a trial raised
KRangeLen(n) == IF MaxClustersFor(n) < EST_MIN_K THEN 0 ELSE MaxClustersFor(n) - 1

EstimatorRuns(n) ==
    {[inertias |-> i, silhouettes |-> s, fails |-> f] :
        i \in [1..KRangeLen(n) -> 0..MaxScore],
        s \in [1..KRangeLen(n) -> 0..MaxScore],
        f \in IF KRangeLen(n) = 0 THEN {FALSE} ELSE BOOLEAN}

EstimatedK(n) ==
    {EstimateOptimalClusters(n, r.inertias, r.silhouettes, r.fails) : r \in EstimatorRuns(n)}


(***************************************************************************)
(* Cluster Assigner: what the clustering libraries may return.             *)
(***************************************************************************)
Card(S) == Cardinality(S)

\* a non-decreasing array of length n that runs through the values of vals
\* (ascending), changing value after each position of cuts
Staircase(n, vals, cuts) ==
    [i \in 1..n |-> vals[1 + Card({c \in cuts : c < i})]]

\* AgglomerativeClustering(n_clusters=k).fit_predict on n >= 2 rows, k <= n:
\* every label 0..k-1 is used
AgglomerativeLabels(n, k) ==
    IF n <= FreeLen
    THEN {l \in [1..n -> 0..(k - 1)] : Range(l) = 0..(k - 1)}
    ELSE {Staircase(n, [v \in 1..k |-> v - 1], cuts) :
             cuts \in {c \in SUBSET (1..(n - 1)) : Card(c) = k - 1}}

\* np.argmax over the rows of an (n x n_topics) topic distribution: any
\* topic may be dominant for any row, and a topic may dominate no row
ArgMaxLabels(n, n_topics) ==
    LET top == Min(n_topics, MaxTopic) - 1
    IN  IF n <= FreeLen
        THEN [1..n -> 0..top]
        ELSE UNION {{Staircase(n, SortedSeq(used), cuts) :
                        cuts \in {c \in SUBSET (1..(n - 1)) : Card(c) = Card(used) - 1}} :
                    used \in (SUBSET (0..top)) \ {{}}}

(***************************************************************************)
(* Topic clusters and the Hybrid Refiner.                                  *)
(***************************************************************************)
\* _create_topic_clusters on the keyword list kws_in (batch positions), the
\* dominant topic of each, and the number of top words of a topic
CreateTopicClusters(kws_in, labs, top_words, firstId) ==
    LET ls == Unique(labs)
    IN  [i \in 1..Len(ls) |->
            LET cluster_indices == Where(labs, ls[i])
            IN  [id           |-> firstId + i - 1,
                 label        |-> firstId + i - 1,
                 members      |-> [j \in DOMAIN cluster_indices |-> kws_in[cluster_indices[j]]],
                 size         |-> Len(cluster_indices),
                 has_centroid |-> FALSE,
                 topic_id     |-> ls[i],
                 topic_words  |-> top_words,
                 refined      |-> FALSE,
                 sub_topics   |-> <<>>]]

\* the keyword list the refiner hands to the topic modeler for one cluster
ClusterKeywords_Batch(kws, cluster) == [p \in DOMAIN kws |-> p]

ClusterKeywords(kws, cluster) ==
    SortedSeq({p \in DOMAIN kws : kws[p].cluster_id = cluster.id})

\* _refine_cluster_with_topics
RefineClusterWithTopics_Unmerged(cluster, topic_clusters) == cluster

RefineClusterWithTopics(cluster, topic_clusters) ==
    [cluster EXCEPT
        !.refined = TRUE,
        !.sub_topics = [i \in DOMAIN topic_clusters |->
                           [id          |-> topic_clusters[i].id,
                            label       |-> topic_clusters[i].label,
                            keywords    |-> topic_clusters[i].members,
                            topic_words |-> topic_clusters[i].topic_words]]]

RefineTopics(size) == Min(REFINE_MAX_TOPICS, size \div 2)

TopWords(terms) == Min(TOP_WORDS, terms)

(***************************************************************************)
(* Metrics Calculator.                                                     *)
(***************************************************************************)
\* per cluster, the places in its keyword_data whose record carries the
\* cluster's id; these index the batch embeddings
ScoredRows(kws, cls) ==
    [i \in DOMAIN cls |->
        [label |-> cls[i].id,
         rows  |-> SortedSeq({j \in DOMAIN cls[i].members :
                                 kws[cls[i].members[j]].cluster_id = cls[i].id})]]

ScoredCount(scored) == SeqSum([i \in DOMAIN scored |-> Len(scored[i].rows)])

\* len(np.unique(cluster_labels))
ScoredLabels_Rows(scored) == ScoredCount(scored)

ScoredLabels(scored) == Card({scored[i].label : i \in {j \in DOMAIN scored : scored[j].rows # <<>>}})

\* silhouette_score and calinski_harabasz_score need 2 <= labels <= samples - 1
ScoresRaise(scored) ==
    ScoredLabels(scored) > 1 /\ ScoredLabels(scored) > ScoredCount(scored) - 1

ClusterMetrics(kws, cls) ==
    LET scored == ScoredRows(kws, cls)
    IN  [silhouette_score        |-> IF ScoredLabels(scored) > 1 THEN "score" ELSE "0",
         calinski_harabasz_score |-> IF ScoredLabels(scored) > 1 THEN "score" ELSE "0",
         total_clusters          |-> Len(cls),
         total_keywords          |-> ScoredCount(scored),
         avg_cluster_size        |-> IF Len(cls) > 0
                                     THEN <<ScoredCount(scored), Len(cls)>> ELSE <<0, 1>>,
         cluster_sizes           |-> [i \in DOMAIN cls |-> cls[i].size],
         scored                  |-> scored]


(***************************************************************************)
(* AdvancedClusteringWorker.perform_advanced_clustering, stage by stage.   *)
(***************************************************************************)
Engine == "perform_advanced_clustering"

Methods == {"hierarchical", "topic_modeling", "hybrid", "density", "kmeans"}

\* the if / elif chain on the method name
Strategy_DefaultHierarchical(m) ==
    IF m \in {"topic_modeling", "hybrid"} THEN m ELSE "hierarchical"

Strategy(m) ==
    IF m \in {"hierarchical", "topic_modeling", "hybrid"} THEN m ELSE "unsupported"

N == Len(keywords)

\* the distance_threshold keyword argument: absent, or a distance (in
\* tenths)
DistanceThresholds == {None, 5}

InitEngine ==
    /\ entry = Engine
    /\ pc = "embed"
    /\ method \in Methods
    /\ n_clusters \in {None} \cup 1..MaxK
    /\ distance_threshold \in DistanceThresholds
    /\ \E n \in 0..MaxKw :
          /\ keywords = FreshKeywords(n)
          /\ vocabulary \in IF n = 0 THEN {0} ELSE 0..MaxVocab
    /\ labels = <<>> /\ clusters = <<>> /\ semantic = <<>> /\ cluster_groups = <<>>
    /\ hierarchy = None /\ topic_model = None /\ metrics = None
    /\ outcome = "running" /\ error = NoError
    /\ grouping = NoGrouping /\ rerun = NoRerun
    /\ calls = NoCalls /\ next_id = 1 /\ est = NoEst /\ result = None

\* an exception leaves the function: every except clause on the way logs it
\* and raises it again
Raises(kind, c) ==
    /\ pc' = "done" /\ outcome' = "raised"
    /\ error' = [kind |-> kind, stage |-> pc]
    /\ calls' = [c EXCEPT !.logged = @ + 1]
    /\ UNCHANGED <<grouping, rerun, distance_threshold>>
    /\ UNCHANGED <<entry, method, n_clusters, keywords, labels, clusters, semantic,
                   cluster_groups, hierarchy, topic_model, metrics, next_id, est,
                   vocabulary, result>>

GenerateEmbeddings ==
    /\ entry = Engine /\ pc = "embed"
    /\ calls' = [calls EXCEPT !.embed = @ + 1]
    /\ pc' = "assign"
    /\ UNCHANGED <<grouping, rerun, distance_threshold>>
    /\ UNCHANGED <<entry, method, n_clusters, keywords, labels, clusters, semantic,
                   cluster_groups, hierarchy, topic_model, metrics, outcome, error,
                   next_id, est, vocabulary, result>>

GenerateEmbeddingsRaises ==
    /\ entry = Engine /\ pc = "embed"
    /\ Raises("EmbeddingFailure", [calls EXCEPT !.embed = @ + 1])

\* the cluster count _hierarchical_clustering hands to AgglomerativeClustering
RequestedK == IF n_clusters = None THEN EstimatedK(N) ELSE {n_clusters}

CallsOfAssigner ==
    [calls EXCEPT !.estimator = @ + (IF n_clusters = None THEN 1 ELSE 0),
                  !.clustering = @ + 1]

\* _hierarchical_clustering, for the hierarchical strategy and as step 1 of
\* the hybrid strategy
HierarchicalClustering ==
    /\ entry = Engine /\ pc = "assign"
    /\ Strategy(method) \in {"hierarchical", "hybrid"}
    /\ distance_threshold = None
    /\ \E k \in RequestedK :
          /\ N >= 2 /\ k <= N
          /\ \E l \in AgglomerativeLabels(N, k) :
                LET cls == CreateClusterObjects(l, next_id)
                IN  /\ labels' = l
                    /\ keywords' = AssignKeywords(keywords, cls)
                    /\ next_id' = next_id + Len(cls)
                    /\ IF Strategy(method) = "hybrid"
                       THEN semantic' = cls /\ clusters' = <<>> /\ pc' = "refine"
                       ELSE semantic' = semantic /\ clusters' = cls /\ pc' = "hierarchy"
    /\ calls' = CallsOfAssigner
    /\ UNCHANGED <<grouping, rerun, distance_threshold>>
    /\ UNCHANGED <<entry, method, n_clusters, cluster_groups, hierarchy, topic_model,
                   metrics, outcome, error, est, vocabulary, result>>

\* AgglomerativeClustering needs two rows, at most as many clusters as rows,
\* and exactly one of n_clusters and distance_threshold; n_clusters is never
\* None when it is constructed. _hybrid_clustering has no distance_threshold
\* parameter.
HierarchicalClusteringRaises ==
    /\ entry = Engine /\ pc = "assign"
    /\ Strategy(method) \in {"hierarchical", "hybrid"}
    /\ \/ /\ Strategy(method) = "hybrid" /\ distance_threshold # None
          /\ Raises("TypeError", calls)
       \/ /\ Strategy(method) = "hybrid" => distance_threshold = None
          /\ \/ distance_threshold # None
             \/ \E k \in RequestedK : N < 2 \/ k > N
          /\ Raises("ValueError", CallsOfAssigner)

\* _topic_modeling_clustering with its default n_topics
TopicModelingClustering ==
    /\ entry = Engine /\ pc = "assign"
    /\ Strategy(method) = "topic_modeling"
    /\ n_clusters = None /\ distance_threshold = None
    /\ vocabulary >= 1
    /\ \E l \in ArgMaxLabels(N, DEFAULT_N_TOPICS) :
          LET cls == CreateTopicClusters([p \in 1..N |-> p], l, TopWords(vocabulary), next_id)
          IN  /\ labels' = l
              /\ clusters' = cls
              /\ keywords' = AssignKeywords(keywords, cls)
              /\ next_id' = next_id + Len(cls)
    /\ pc' = "hierarchy"
    /\ calls' = [calls EXCEPT !.clustering = @ + 1]
    /\ UNCHANGED <<grouping, rerun, distance_threshold>>
    /\ UNCHANGED <<entry, method, n_clusters, semantic, cluster_groups, hierarchy,
                   topic_model, metrics, outcome, error, est, vocabulary, result>>

\* the function takes no n_clusters or distance_threshold keyword; the vectorizer raises on an
\* empty vocabulary
TopicModelingClusteringRaises ==
    /\ entry = Engine /\ pc = "assign"
    /\ Strategy(method) = "topic_modeling"
    /\ \/ (n_clusters # None \/ distance_threshold # None) /\ Raises("TypeError", calls)
       \/ n_clusters = None /\ distance_threshold = None /\ vocabulary = 0
              /\ Raises("DecompositionFailure", [calls EXCEPT !.clustering = @ + 1])

UnsupportedMethod ==
    /\ entry = Engine /\ pc = "assign"
    /\ Strategy(method) = "unsupported"
    /\ Raises("UnsupportedStrategy", calls)

AfterRefinement_First(refined_clusters, semantic_clusters) == "hierarchy"

\* the for loop of _hybrid_clustering ends, and the function returns, when
\* every semantic cluster has its entry in refined_clusters
AfterRefinement(refined_clusters, semantic_clusters) ==
    IF Len(refined_clusters) = Len(semantic_clusters) THEN "hierarchy" ELSE "refine"

\* one turn of the loop of _hybrid_clustering over semantic_clusters.
\* Nothing in the body of _refine_cluster_with_topics raises on the
\* dictionaries the builders make, so its handler is never entered.
RefineCluster ==
    /\ entry = Engine /\ pc = "refine"
    /\ Len(clusters) < Len(semantic)
    /\ LET cluster == semantic[Len(clusters) + 1]
           cluster_keywords == ClusterKeywords(keywords, cluster)
       IN  IF Len(cluster_keywords) > REFINE_MIN_SIZE
           THEN \E v \in 1..vocabulary :
                \E l \in ArgMaxLabels(Len(cluster_keywords),
                                      RefineTopics(Len(cluster_keywords))) :
                   LET topic_clusters ==
                           CreateTopicClusters(cluster_keywords, l, TopWords(v), next_id)
                   IN  /\ keywords' = AssignKeywords(keywords, topic_clusters)
                       /\ next_id' = next_id + Len(topic_clusters)
                       /\ calls' = [calls EXCEPT !.embed = @ + 1]
                       /\ clusters' = Append(clusters,
                               RefineClusterWithTopics(cluster, topic_clusters))
           ELSE /\ clusters' = Append(clusters, cluster)
                /\ UNCHANGED <<keywords, next_id, calls>>
    /\ pc' = AfterRefinement(clusters', semantic)
    /\ UNCHANGED <<grouping, rerun, distance_threshold>>
    /\ UNCHANGED <<entry, method, n_clusters, labels, semantic, cluster_groups,
                   hierarchy, topic_model, metrics, outcome, error, est, vocabulary,
                   result>>

\* inside the loop only _refine_cluster_with_topics has a handler of its own
RefineClusterRaises ==
    /\ entry = Engine /\ pc = "refine"
    /\ Len(clusters) < Len(semantic)
    /\ Len(ClusterKeywords(keywords, semantic[Len(clusters) + 1])) > REFINE_MIN_SIZE
    /\ \/ Raises("EmbeddingFailure", [calls EXCEPT !.embed = @ + 1])
       \/ \E v \in 0..vocabulary :
             v = 0 /\ Raises("DecompositionFailure", [calls EXCEPT !.embed = @ + 1])

\* _build_cluster_hierarchy; the centroids (means of embedding rows) take
\* their values here, where they are first read
BuildHierarchy ==
    /\ pc = "hierarchy"
    /\ ~CentroidsMissing(clusters)
    /\ \E cent \in [DOMAIN clusters -> CentroidsOf(entry)] :
          /\ cluster_groups' = GroupSimilarClusters(cent)
          /\ hierarchy' = BuildClusterHierarchy(clusters, cluster_groups')
    /\ IF entry = Engine
       THEN pc' = "topics" /\ outcome' = outcome
       ELSE pc' = "done" /\ outcome' = "returned"
    /\ UNCHANGED <<grouping, rerun, distance_threshold>>
    /\ UNCHANGED <<entry, method, n_clusters, keywords, labels, clusters, semantic,
                   topic_model, metrics, error, calls, next_id, est, vocabulary, result>>

BuildHierarchyRaises ==
    /\ pc = "hierarchy"
    /\ CentroidsMissing(clusters)
    /\ Raises("KeyError", calls)

\* the topic count of _generate_topic_model
ModelTopics(n) == Min(MODEL_MAX_TOPICS, n \div MODEL_TOPIC_DIVISOR)

GenerateTopicModel ==
    /\ entry = Engine /\ pc = "topics"
    /\ vocabulary >= 1
    /\ ModelTopics(N) >= 1
    /\ topic_model' = [n_topics |-> ModelTopics(N), top_words |-> TopWords(vocabulary)]
    /\ pc' = "metrics"
    /\ UNCHANGED <<grouping, rerun, distance_threshold>>
    /\ UNCHANGED <<entry, method, n_clusters, keywords, labels, clusters, semantic,
                   cluster_groups, hierarchy, metrics, outcome, error, calls, next_id,
                   est, vocabulary, result>>

\* the vectorizer raises on an empty vocabulary; LatentDirichletAllocation
\* rejects n_components < 1
GenerateTopicModelRaises ==
    /\ entry = Engine /\ pc = "topics"
    /\ \/ vocabulary = 0 /\ Raises("DecompositionFailure", calls)
       \/ vocabulary >= 1 /\ ModelTopics(N) < 1 /\ Raises("InvalidParameter", calls)

CalculateMetrics ==
    /\ entry = Engine /\ pc = "metrics"
    /\ ~ScoresRaise(ScoredRows(keywords, clusters))
    /\ metrics' = ClusterMetrics(keywords, clusters)
    /\ calls' = [calls EXCEPT !.silhouette =
                    @ + (IF metrics'.silhouette_score = "score" THEN 1 ELSE 0)]
    /\ result' = [clusters    |-> clusters,
                  hierarchy   |-> hierarchy,
                  topic_model |-> topic_model,
                  metrics     |-> metrics',
                  method      |-> method,
                  parameters  |-> n_clusters]
    /\ pc' = "done" /\ outcome' = "returned"
    /\ UNCHANGED <<grouping, rerun, distance_threshold>>
    /\ UNCHANGED <<entry, method, n_clusters, keywords, labels, clusters, semantic,
                   cluster_groups, hierarchy, topic_model, error, next_id, est,
                   vocabulary>>

CalculateMetricsRaises ==
    /\ entry = Engine /\ pc = "metrics"
    /\ ScoresRaise(ScoredRows(keywords, clusters))
    /\ Raises("ValueError", [calls EXCEPT !.silhouette = @ + 1])

Next ==
    \/ GenerateEmbeddings
    \/ GenerateEmbeddingsRaises
    \/ HierarchicalClustering
    \/ HierarchicalClusteringRaises
    \/ TopicModelingClustering
    \/ TopicModelingClusteringRaises
    \/ UnsupportedMethod
    \/ RefineCluster
    \/ RefineClusterRaises
    \/ BuildHierarchy
    \/ BuildHierarchyRaises
    \/ GenerateTopicModel
    \/ GenerateTopicModelRaises
    \/ CalculateMetrics
    \/ CalculateMetricsRaises

Spec == InitEngine /\ [][Next]_vars


(***************************************************************************)
(* _build_cluster_hierarchy called on its own, on every short cluster list.*)
(***************************************************************************)
\* a cluster list as a builder returns it: fresh ids in list order, the
\* members consecutive keyword positions
RECURSIVE ClusterList(_, _, _, _)
ClusterList(sizes, with_centroid, firstId, firstPos) ==
    IF sizes = <<>> THEN <<>>
    ELSE <<[id           |-> firstId,
            label        |-> firstId,
            members      |-> [j \in 1..Head(sizes) |-> firstPos + j - 1],
            size         |-> Head(sizes),
            has_centroid |-> with_centroid,
            topic_id     |-> IF with_centroid THEN NoTopic ELSE firstId - 1,
            topic_words  |-> IF with_centroid THEN 0 ELSE 1,
            refined      |-> FALSE,
            sub_topics   |-> <<>>]>>
         \o ClusterList(Tail(sizes), with_centroid, firstId + 1, firstPos + Head(sizes))

InitHierarchy ==
    /\ entry = "_build_cluster_hierarchy"
    /\ pc = "hierarchy"
    /\ \E n \in 0..MaxClusters, with_centroid \in BOOLEAN :
       \E sizes \in [1..n -> 1..MaxSize] :
          /\ clusters = ClusterList(sizes, with_centroid, 1, 1)
          /\ keywords = AssignKeywords(FreshKeywords(SeqSum(sizes)), clusters)
          /\ next_id = n + 1
    /\ method = "" /\ n_clusters = None /\ vocabulary = 0
    /\ labels = <<>> /\ semantic = <<>> /\ cluster_groups = <<>>
    /\ hierarchy = None /\ topic_model = None /\ metrics = None
    /\ outcome = "running" /\ error = NoError
    /\ grouping = NoGrouping /\ rerun = NoRerun
    /\ distance_threshold = None
    /\ calls = NoCalls /\ est = NoEst /\ result = None

NextHierarchy == BuildHierarchy \/ BuildHierarchyRaises

SpecHierarchy == InitHierarchy /\ [][NextHierarchy]_vars

\* C2: when _build_cluster_hierarchy returns for a list of at least one
\* cluster, the size of the root node is the sum of the sizes of all the
\* clusters passed in, however the levels group them.
C2_RootSize ==
    (entry = "_build_cluster_hierarchy" /\ pc = "done" /\ outcome = "returned"
        /\ Len(clusters) >= 1) =>
        hierarchy.root.size = SeqSum([i \in DOMAIN clusters |-> clusters[i].size])

C2_Witness ==
    /\ entry = "_build_cluster_hierarchy" /\ pc = "done" /\ outcome = "returned"
    /\ Len(clusters) = 3
    /\ Len(cluster_groups) = 3
    /\ hierarchy.root.size = 4


(***************************************************************************)
(* _estimate_optimal_clusters called on its own.                           *)
(***************************************************************************)
InitEstimator ==
    /\ entry = "_estimate_optimal_clusters"
    /\ pc = "start"
    /\ \E n \in 1..MaxEstN :
       \E r \in EstimatorRuns(n) :
          est = [n |-> n, inertias |-> r.inertias, silhouettes |-> r.silhouettes,
                 fails |-> r.fails, elbow_k |-> None, best_silhouette_k |-> None,
                 k |-> None]
    /\ method = "" /\ n_clusters = None /\ vocabulary = 0
    /\ keywords = <<>> /\ labels = <<>> /\ clusters = <<>> /\ semantic = <<>>
    /\ cluster_groups = <<>>
    /\ hierarchy = None /\ topic_model = None /\ metrics = None
    /\ outcome = "running" /\ error = NoError
    /\ grouping = NoGrouping /\ rerun = NoRerun
    /\ distance_threshold = None
    /\ calls = NoCalls /\ next_id = 1 /\ result = None

Estimate ==
    /\ entry = "_estimate_optimal_clusters" /\ pc = "start"
    /\ est' = [est EXCEPT !.k = EstimateOptimalClusters(est.n, est.inertias,
                                                       est.silhouettes, est.fails),
                          !.elbow_k =
                              IF MaxClustersFor(est.n) < EST_MIN_K \/ est.fails THEN None
                              ELSE FindElbowPoint(MaxClustersFor(est.n), est.inertias),
                          !.best_silhouette_k =
                              IF MaxClustersFor(est.n) < EST_MIN_K \/ est.fails THEN None
                              ELSE EST_MIN_K + (ArgMax(est.silhouettes) - 1)]
    /\ error' = IF est.fails THEN [kind |-> "NumericalFailure", stage |-> pc] ELSE error
    /\ calls' = [calls EXCEPT !.estimator = @ + 1,
                              !.logged = @ + (IF est.fails THEN 1 ELSE 0)]
    /\ pc' = "done" /\ outcome' = "returned"
    /\ UNCHANGED <<grouping, rerun, distance_threshold>>
    /\ UNCHANGED <<entry, method, n_clusters, keywords, labels, clusters, semantic,
                   cluster_groups, hierarchy, topic_model, metrics, next_id,
                   vocabulary, result>>

NextEstimator == Estimate

SpecEstimator == InitEstimator /\ [][NextEstimator]_vars

Worker == "cluster_keywords"

\* a keyword dict of the worker: which of the keys 'keyword' and 'embedding'
\* it carries
WorkerKeywords(n) == [1..n -> [keyword : BOOLEAN, embedding : BOOLEAN]]

ZeroMetadata == [total_clusters |-> 0, avg_cluster_size |-> <<0, 1>>, silhouette_score |-> "0"]

\* the dictionary returned for an empty batch
EmptyBatchResult == [clusters |-> <<>>, metadata |-> ZeroMetadata]

\* the dictionary returned by the except clause
ErrorResult == [clusters |-> <<>>, metadata |-> ZeroMetadata]

\* if not keywords
IsEmptyBatch_Never(kws) == FALSE

IsEmptyBatch(kws) == kws = <<>>

\* except Exception: log and return the empty result
WorkerOnException_Reraise == [outcome |-> "raised", result |-> None]

WorkerOnException == [outcome |-> "returned", result |-> ErrorResult]

Handled(kind, c) ==
    /\ pc' = "done"
    /\ outcome' = WorkerOnException.outcome
    /\ result' = WorkerOnException.result
    /\ error' = [kind |-> kind, stage |-> pc]
    /\ calls' = [c EXCEPT !.logged = @ + 1]
    /\ UNCHANGED <<grouping, rerun, distance_threshold>>
    /\ UNCHANGED <<entry, method, n_clusters, keywords, labels, clusters, semantic,
                   cluster_groups, hierarchy, topic_model, metrics, next_id, est,
                   vocabulary>>

\* HDBSCAN(min_cluster_size=2).fit_predict: labels 0..m-1 and -1 for noise,
\* every cluster with at least two rows
HDBSCANLabels(n) ==
    {l \in [1..n -> NOISE..MaxLabel] :
        /\ \A v \in Range(l) \ {NOISE} : Card({p \in 1..n : l[p] = v}) >= 2
        /\ \A v \in Range(l) \ {NOISE} : \A u \in 0..v : u \in Range(l)}

InitWorker ==
    /\ entry = Worker
    /\ pc = "start"
    /\ \E n \in 0..MaxLen : keywords \in WorkerKeywords(n)
    /\ method = "" /\ n_clusters = None /\ vocabulary = 0
    /\ labels = <<>> /\ clusters = <<>> /\ semantic = <<>> /\ cluster_groups = <<>>
    /\ hierarchy = None /\ topic_model = None /\ metrics = None
    /\ outcome = "running" /\ error = NoError
    /\ grouping = NoGrouping /\ rerun = NoRerun
    /\ distance_threshold = None
    /\ calls = NoCalls /\ next_id = 1 /\ est = NoEst /\ result = None

WorkerReturnEmpty ==
    /\ entry = Worker /\ pc = "start"
    /\ IsEmptyBatch(keywords)
    /\ result' = EmptyBatchResult
    /\ pc' = "done" /\ outcome' = "returned"
    /\ UNCHANGED <<grouping, rerun, distance_threshold>>
    /\ UNCHANGED <<entry, method, n_clusters, keywords, labels, clusters, semantic,
                   cluster_groups, hierarchy, topic_model, metrics, error, calls,
                   next_id, est, vocabulary>>

\* the lookups of lines 32-36: keywords[0] of an empty list, kw['keyword']
\* when the embeddings are generated, kw['embedding'] when they are read
EmbeddingLookupError(kws) ==
    IF kws = <<>> THEN "IndexError"
    ELSE IF ~kws[1].embedding
         THEN IF \E p \in DOMAIN kws : ~kws[p].keyword THEN "KeyError" ELSE "none"
         ELSE IF \E p \in DOMAIN kws : ~kws[p].embedding THEN "KeyError" ELSE "none"

\* the embeddings are generated from the 'keyword' texts when the first
\* record carries none, and read from the records otherwise
WorkerEmbeddings ==
    /\ entry = Worker /\ pc = "start"
    /\ ~IsEmptyBatch(keywords)
    /\ EmbeddingLookupError(keywords) = "none"
    /\ calls' = [calls EXCEPT !.embed = @ + (IF keywords[1].embedding THEN 0 ELSE 1)]
    /\ pc' = "cluster"
    /\ UNCHANGED <<grouping, rerun, distance_threshold>>
    /\ UNCHANGED <<entry, method, n_clusters, keywords, labels, clusters, semantic,
                   cluster_groups, hierarchy, topic_model, metrics, outcome, error,
                   next_id, est, vocabulary, result>>

\* a failed lookup, or the embedding model raising
WorkerEmbeddingsFails ==
    /\ entry = Worker /\ pc = "start"
    /\ ~IsEmptyBatch(keywords)
    /\ \/ /\ EmbeddingLookupError(keywords) # "none"
          /\ Handled(EmbeddingLookupError(keywords), calls)
       \/ /\ EmbeddingLookupError(keywords) = "none"
          /\ ~keywords[1].embedding
          /\ Handled("EmbeddingFailure", [calls EXCEPT !.embed = @ + 1])

WorkerClustering ==
    /\ entry = Worker /\ pc = "cluster"
    /\ labels' \in HDBSCANLabels(N)
    /\ calls' = [calls EXCEPT !.clustering = @ + 1]
    /\ pc' = "build"
    /\ UNCHANGED <<grouping, rerun, distance_threshold>>
    /\ UNCHANGED <<entry, method, n_clusters, keywords, clusters, semantic,
                   cluster_groups, hierarchy, topic_model, metrics, outcome, error,
                   next_id, est, vocabulary, result>>

WorkerClusteringFails ==
    /\ entry = Worker /\ pc = "cluster"
    /\ Handled("ClusteringFailure", [calls EXCEPT !.clustering = @ + 1])

\* _generate_cluster_label reads kw['keyword'] of every clustered record
WorkerBuild ==
    /\ entry = Worker /\ pc = "build"
    /\ \A p \in DOMAIN keywords : labels[p] # NOISE => keywords[p].keyword
    /\ clusters' = WorkerCreateClusterObjects(labels, next_id)
    /\ next_id' = next_id + Len(clusters')
    /\ pc' = "metadata"
    /\ UNCHANGED <<grouping, rerun, distance_threshold>>
    /\ UNCHANGED <<entry, method, n_clusters, keywords, labels, semantic,
                   cluster_groups, hierarchy, topic_model, metrics, outcome, error,
                   calls, est, vocabulary, result>>

WorkerBuildFails ==
    /\ entry = Worker /\ pc = "build"
    /\ \E p \in DOMAIN keywords : labels[p] # NOISE /\ ~keywords[p].keyword
    /\ Handled("KeyError", calls)

\* whether _calculate_cluster_metadata calls silhouette_score
WorkerScores(cls, labs) ==
    /\ Len(cls) > 1
    /\ Card(Range(labs)) > 1
    /\ Card({p \in DOMAIN labs : labs[p] # NOISE}) > 1

\* _calculate_cluster_metadata; a failure of silhouette_score is caught
\* inside and leaves the score at 0
WorkerMetadata ==
    /\ entry = Worker /\ pc = "metadata"
    /\ \E silhouette \in IF WorkerScores(clusters, labels) THEN {"score", "0"} ELSE {"0"} :
          metrics' = IF Len(clusters) = 0 THEN ZeroMetadata
                     ELSE [total_clusters   |-> Len(clusters),
                           avg_cluster_size |->
                               <<SeqSum([i \in DOMAIN clusters |-> Len(clusters[i].members)]),
                                 Len(clusters)>>,
                           silhouette_score |-> silhouette]
    /\ calls' = [calls EXCEPT !.silhouette =
                    @ + (IF WorkerScores(clusters, labels) THEN 1 ELSE 0)]
    /\ result' = [clusters |-> clusters, metadata |-> metrics']
    /\ pc' = "done" /\ outcome' = "returned"
    /\ UNCHANGED <<grouping, rerun, distance_threshold>>
    /\ UNCHANGED <<entry, method, n_clusters, keywords, labels, clusters, semantic,
                   cluster_groups, hierarchy, topic_model, error, next_id, est,
                   vocabulary>>

NextWorker ==
    \/ WorkerReturnEmpty
    \/ WorkerEmbeddings
    \/ WorkerEmbeddingsFails
    \/ WorkerClustering
    \/ WorkerClusteringFails
    \/ WorkerBuild
    \/ WorkerBuildFails
    \/ WorkerMetadata

SpecWorker == InitWorker /\ [][NextWorker]_vars

\* C9: for an empty batch cluster_keywords returns the empty result with
\* zeroed metadata; no exception occurs and neither the embedding model nor
\* the clustering is invoked.
C9_EmptyBatch ==
    (entry = Worker /\ pc = "done" /\ keywords = <<>>) =>
        /\ outcome = "returned"
        /\ result = [clusters |-> <<>>,
                     metadata |-> [total_clusters   |-> 0,
                                   avg_cluster_size |-> <<0, 1>>,
                                   silhouette_score |-> "0"]]
        /\ error.kind = "none"
        /\ calls.embed = 0 /\ calls.clustering = 0

C9_Witness ==
    /\ entry = Worker /\ pc = "done" /\ keywords = <<>>
    /\ outcome = "returned" /\ result.clusters = <<>>

\* C10: cluster_keywords never raises: every call ends by returning a
\* dictionary with a 'clusters' key, and a call in which a stage failed
\* returns the empty result with zeroed metadata.
C10_NeverRaises ==
    (entry = Worker /\ pc = "done") =>
        /\ outcome = "returned"
        /\ "clusters" \in DOMAIN result
        /\ error.kind # "none" =>
              result = [clusters |-> <<>>,
                        metadata |-> [total_clusters   |-> 0,
                                      avg_cluster_size |-> <<0, 1>>,
                                      silhouette_score |-> "0"]]

C10_Witness ==
    /\ entry = Worker /\ pc = "done"
    /\ error = [kind |-> "ClusteringFailure", stage |-> "cluster"]
    /\ Len(keywords) = 2
    /\ outcome = "returned" /\ result.clusters = <<>>

(***************************************************************************)
(* Properties of an engine run (perform_advanced_clustering).              *)
(***************************************************************************)
\* failures of the embedding model and of the decomposition library
LibraryFailures == {"EmbeddingFailure", "DecompositionFailure"}

RunDone == entry = Engine /\ pc = "done"

\* C3: a hierarchical run with a requested n_clusters = k, 1 <= k <= N,
\* returns a result with exactly k clusters, each non-empty, together
\* covering all N keywords, and the estimator is not invoked.
C3_Claim ==
    (/\ RunDone /\ method = "hierarchical"
     /\ n_clusters # None /\ n_clusters <= N
     /\ error.kind \notin LibraryFailures) =>
        /\ outcome = "returned"
        /\ Len(result.clusters) = n_clusters
        /\ \A i \in DOMAIN result.clusters : result.clusters[i].members # <<>>
        /\ UNION {Range(result.clusters[i].members) : i \in DOMAIN result.clusters}
              = 1..N
        /\ calls.estimator = 0

\* C5: a run of a documented strategy selector on a non-empty batch whose
\* embedding and decomposition steps succeed is dispatched to a strategy and
\* returns an output with all of clusters, hierarchy, topic_model, metrics,
\* method and parameters.
C5_Claim ==
    (/\ RunDone /\ N >= 1
     /\ method \in {"hierarchical", "topic_modeling", "hybrid", "density"}
     /\ error.kind \notin LibraryFailures) =>
        /\ error.kind # "UnsupportedStrategy"
        /\ outcome = "returned"
        /\ DOMAIN result = {"clusters", "hierarchy", "topic_model", "metrics",
                            "method", "parameters"}

\* C6: a run with a method name that is not a supported strategy ends with
\* an error raised to the caller (logged, never turned into a result), the
\* unsupported-strategy error whenever the embeddings were generated, and
\* produces no clusters, hierarchy, topic model or metrics.
C6_UnsupportedRaises ==
    (RunDone /\ method \notin {"hierarchical", "topic_modeling", "hybrid"}) =>
        /\ outcome = "raised"
        /\ error.kind \in {"UnsupportedStrategy", "EmbeddingFailure"}
        /\ calls.embed = 1 /\ calls.logged >= 1
        /\ calls.clustering = 0 /\ calls.estimator = 0
        /\ clusters = <<>> /\ cluster_groups = <<>>
        /\ hierarchy = None /\ topic_model = None /\ metrics = None
        /\ result = None

C6_Witness ==
    /\ RunDone /\ method = "density" /\ N = 6
    /\ outcome = "raised"
    /\ error = [kind |-> "UnsupportedStrategy", stage |-> "assign"]

\* C7: in the hybrid strategy a failure while refining one semantic cluster
\* does not abort the batch: the loop is left with one entry per semantic
\* cluster and no error from the refining step reaches the caller.
C7_Claim ==
    (/\ entry = Engine /\ Strategy(method) = "hybrid"
     /\ semantic # <<>> /\ pc # "refine") =>
        /\ error.stage # "refine"
        /\ Len(clusters) = Len(semantic)

\* the sub-topics of a refined cluster are subsets of its members with
\* non-empty top-term lists
SubTopicsWithin(c) ==
    \A j \in DOMAIN c.sub_topics :
        /\ c.sub_topics[j].keywords # <<>>
        /\ Range(c.sub_topics[j].keywords) \subseteq Range(c.members)
        /\ c.sub_topics[j].topic_words >= 1

\* C8 as stated: a cluster refined with n_topics = t has exactly t
\* sub-topics, each a subset of the parent's members with a non-empty
\* top-term list.
C8_Claim ==
    \A i \in DOMAIN clusters :
        (entry = Engine /\ clusters[i].refined) =>
            /\ Len(clusters[i].sub_topics) = RefineTopics(clusters[i].size)
            /\ SubTopicsWithin(clusters[i])

\* C8: a cluster refined with n_topics = t has between 1 and t sub-topics
\* (one per topic that is dominant for at least one member), each a
\* non-empty subset of the parent's members with a non-empty top-term list.
C8_SubTopics ==
    \A i \in DOMAIN clusters :
        (entry = Engine /\ clusters[i].refined) =>
            /\ Len(clusters[i].sub_topics) >= 1
            /\ Len(clusters[i].sub_topics) <= RefineTopics(clusters[i].size)
            /\ SubTopicsWithin(clusters[i])

C8_Witness ==
    /\ entry = Engine /\ method = "hybrid" /\ pc = "done" /\ outcome = "returned"
    /\ \E i \in DOMAIN clusters :
          /\ clusters[i].refined /\ clusters[i].size = 10
          /\ RefineTopics(clusters[i].size) = 3
          /\ Len(clusters[i].sub_topics) = 2

\* C11: when a run returns, every keyword record in a returned cluster's
\* member list carries that cluster's id as cluster_id and that cluster's
\* label as cluster_label.
C11_Claim ==
    (RunDone /\ outcome = "returned") =>
        \A i \in DOMAIN result.clusters :
            \A p \in Range(result.clusters[i].members) :
                /\ keywords[p].cluster_id = result.clusters[i].id
                /\ keywords[p].cluster_label = result.clusters[i].label

\* C12: in a hierarchical or hybrid run the reported total_keywords is the
\* number of keywords assigned to clusters and the sum of the reported
\* cluster_sizes, total_clusters is the number of clusters, and
\* avg_cluster_size is total_keywords / total_clusters.
C12_Claim ==
    (RunDone /\ outcome = "returned" /\ method \in {"hierarchical", "hybrid"}) =>
        /\ metrics.total_keywords = SeqSum(metrics.cluster_sizes)
        /\ metrics.total_keywords =
              Card(UNION {Range(clusters[i].members) : i \in DOMAIN clusters})
        /\ metrics.total_clusters = Len(clusters)
        /\ metrics.avg_cluster_size =
              IF Len(clusters) > 0
              THEN <<SeqSum(metrics.cluster_sizes), Len(clusters)>> ELSE <<0, 1>>

(***************************************************************************)
(* The two metric calculators side by side: runs of the engine and calls   *)
(* of ClusterWorker.cluster_keywords.                                      *)
(***************************************************************************)
InitBoth == InitEngine \/ InitWorker

NextBoth == Next \/ NextWorker

SpecBoth == InitBoth /\ [][NextBoth]_vars

\* the metrics stage was reached with the final cluster list
MetricsStageDone ==
    /\ pc = "done"
    /\ \/ entry = Engine /\ (outcome = "returned" \/ error.stage = "metrics")
       \/ entry = Worker /\ error.kind = "none" /\ keywords # <<>>

\* C13: when the final partition has fewer than 2 clusters the score
\* functions are not invoked, the reported silhouette score is 0 and (for
\* the engine) the Calinski-Harabasz score is 0.
C13_ScoresZero ==
    (MetricsStageDone /\ Len(clusters) < 2) =>
        /\ calls.silhouette = 0
        /\ outcome = "returned"
        /\ metrics.silhouette_score = "0"
        /\ entry = Engine => metrics.calinski_harabasz_score = "0"

C13_Witness ==
    /\ entry = Engine /\ MetricsStageDone
    /\ method = "hierarchical" /\ Len(clusters) = 1 /\ clusters[1].size = 10
    /\ metrics.silhouette_score = "0" /\ metrics.total_keywords = 10

\* C14: for a non-empty batch of N keyword texts the topic count of the
\* Topic Modeler is max(1, min(10, floor(N / 10))), never below 1.
C14_Claim ==
    (entry = Engine /\ pc = "topics" /\ N >= 1) =>
        /\ ModelTopics(N) >= 1
        /\ ModelTopics(N) = (IF N < 10 THEN 1 ELSE Min(10, N \div 10))

(***************************************************************************)
(* Properties of the hierarchy dictionary.                                 *)
(***************************************************************************)
HierarchyReturned ==
    entry = "_build_cluster_hierarchy" /\ pc = "done" /\ outcome = "returned"

\* how many children entries of the group nodes name cluster id
LeafParents(h, id) ==
    Card({ab \in UNION {{a} \X DOMAIN h.nodes[a].children : a \in DOMAIN h.nodes} :
             h.nodes[ab[1]].children[ab[2]] = id})

\* how many children entries of the root name the group node node_id (the
\* children of a group node are always cluster ids)
GroupParents(h, node_id) ==
    Card({a \in DOMAIN h.root.children : h.root.children[a] = node_id})

\* C15: in every hierarchy returned by _build_cluster_hierarchy every
\* non-root node, leaf cluster or group node, is listed in the children of
\* exactly one node.
C15_Claim ==
    HierarchyReturned =>
        /\ \A i \in DOMAIN clusters : LeafParents(hierarchy, clusters[i].id) = 1
        /\ \A a \in DOMAIN hierarchy.nodes :
              GroupParents(hierarchy, hierarchy.nodes[a].id) = 1

(***************************************************************************)
(* _group_similar_clusters called on its own, on lists of one-keyword      *)
(* clusters, its while loop one pass at a time.                            *)
(***************************************************************************)
Grouper == "_group_similar_clusters"

InitLevels ==
    /\ entry = Grouper
    /\ pc = "group"
    /\ \E n \in 0..MaxClusters :
          /\ clusters = ClusterList([i \in 1..n |-> 1], TRUE, 1, 1)
          /\ keywords = AssignKeywords(FreshKeywords(n), clusters)
          /\ next_id = n + 1
          /\ \E cent \in [1..n -> Centroids] :
                grouping = [centroids |-> cent, current_level |-> <<>>]
    /\ method = "" /\ n_clusters = None /\ vocabulary = 0
    /\ labels = <<>> /\ semantic = <<>> /\ cluster_groups = <<>>
    /\ hierarchy = None /\ topic_model = None /\ metrics = None
    /\ outcome = "running" /\ error = NoError
    /\ rerun = NoRerun
    /\ distance_threshold = None
    /\ calls = NoCalls /\ est = NoEst /\ result = None

\* lines 458-481: the centroids of the clusters are read and the clusters
\* grouped
GroupClusters ==
    /\ entry = Grouper /\ pc = "group"
    /\ grouping' = [grouping EXCEPT !.current_level = FirstGroups(grouping.centroids)]
    /\ pc' = "levels"
    /\ UNCHANGED <<rerun, distance_threshold, entry, method, n_clusters, keywords, labels, clusters,
                   semantic, cluster_groups, hierarchy, topic_model, metrics,
                   outcome, error, calls, next_id, est, vocabulary, result>>

\* one turn of "while current_level": the level is appended and the next
\* one computed.  The guard on MaxLevels only bounds the search; the loop
\* itself has no such limit.
AppendLevel ==
    /\ entry = Grouper /\ pc = "levels"
    /\ grouping.current_level # <<>>
    /\ Len(cluster_groups) < MaxLevels
    /\ cluster_groups' = Append(cluster_groups, grouping.current_level)
    /\ grouping' = [grouping EXCEPT !.current_level =
                        GroupClusterGroups(grouping.centroids, grouping.current_level)]
    /\ UNCHANGED <<rerun, distance_threshold, entry, pc, method, n_clusters, keywords, labels, clusters,
                   semantic, hierarchy, topic_model, metrics, outcome, error, calls,
                   next_id, est, vocabulary, result>>

\* the loop is left when current_level is empty
ReturnLevels ==
    /\ entry = Grouper /\ pc = "levels"
    /\ grouping.current_level = <<>>
    /\ pc' = "done" /\ outcome' = "returned"
    /\ UNCHANGED <<grouping, rerun, distance_threshold, entry, method, n_clusters, keywords, labels,
                   clusters, semantic, cluster_groups, hierarchy, topic_model,
                   metrics, error, calls, next_id, est, vocabulary, result>>

NextLevels == GroupClusters \/ AppendLevel \/ ReturnLevels

SpecLevels == InitLevels /\ [][NextLevels]_vars

\* the call is not suspended for ever: a step that can be taken is taken
SpecLevelsFair == SpecLevels /\ WF_vars(NextLevels)

\* the levels built so far followed by the level in hand
LevelsInHand ==
    IF grouping.current_level = <<>> THEN cluster_groups
    ELSE Append(cluster_groups, grouping.current_level)

LevelsShrink ==
    entry = Grouper =>
        /\ \A l \in 1..(Len(LevelsInHand) - 1) :
              /\ Len(LevelsInHand[l + 1]) < Len(LevelsInHand[l])
              /\ Len(LevelsInHand[l]) > 1
        /\ Len(LevelsInHand) <= Len(clusters)
        /\ pc = "done" => cluster_groups = GroupSimilarClusters(grouping.centroids)

\* C19: the level-building loop of _group_similar_clusters terminates: the
\* call returns, and in the levels it returns each level has strictly fewer
\* groups than the one before, no level follows a level with a single group
\* or a pass that did not reduce the group count, and there are at most as
\* many levels as clusters.
C19_Terminates == <>(pc = "done" /\ outcome = "returned" /\ LevelsShrink)

C19_Witness ==
    /\ entry = Grouper /\ pc = "done" /\ outcome = "returned"
    /\ Len(clusters) = 3 /\ Len(cluster_groups) = 3
    /\ Len(cluster_groups[3]) = 1

\* how many groups of a level hold cluster position i
GroupsHolding(level, i) ==
    Card({ab \in UNION {{a} \X DOMAIN level[a] : a \in DOMAIN level} :
             level[ab[1]][ab[2]] = i})

\* how many groups of the level above take in all of group g
GroupsAbsorbing(above, g) ==
    Card({a \in DOMAIN above : Range(g) \subseteq Range(above[a])})

LevelSize(h, l) ==
    SeqSum([a \in DOMAIN h.nodes |-> IF h.nodes[a].level = l THEN h.nodes[a].size ELSE 0])

\* C20: at every level of the hierarchy the groups partition the input
\* clusters: each cluster is in exactly one group of the level, each group
\* of a level is absorbed whole into exactly one group of the next level,
\* and the node sizes of each level sum to the root size.
C20_LevelsPartition ==
    HierarchyReturned =>
        \A l \in DOMAIN cluster_groups :
            /\ \A i \in DOMAIN clusters : GroupsHolding(cluster_groups[l], i) = 1
            /\ \A a \in DOMAIN cluster_groups[l] : cluster_groups[l][a] # <<>>
            /\ l > 1 => \A a \in DOMAIN cluster_groups[l - 1] :
                  GroupsAbsorbing(cluster_groups[l], cluster_groups[l - 1][a]) = 1
            /\ LevelSize(hierarchy, l) = hierarchy.root.size

C20_Witness ==
    /\ HierarchyReturned
    /\ Len(clusters) = 3 /\ Len(cluster_groups) = 2
    /\ Len(cluster_groups[1]) = 3 /\ Len(cluster_groups[2]) = 2
    /\ hierarchy.root.size = 5

\* C18: an engine run changes a keyword record only by setting cluster_id
\* and cluster_label; no other field is added, removed or changed (a record
\* without topic_id holds NoTopic there).
C18_Claim ==
    entry = Engine =>
        \A p \in DOMAIN keywords :
            /\ DOMAIN keywords[p] = {"cluster_id", "cluster_label", "topic_id"}
            /\ keywords[p].topic_id = NoTopic

(***************************************************************************)
(* ClusterWorker._generate_cluster_label.  A text is the list of its       *)
(* whitespace-separated tokens, a token a list of characters.              *)
(***************************************************************************)
Labeler == "_generate_cluster_label"

\* str.lower and str.upper on the characters in use
Lower(ch) ==
    CASE ch = "S" -> "s" [] ch = "E" -> "e" [] ch = "O" -> "o" [] ch = "T" -> "t"
      [] ch = "L" -> "l" [] ch = "H" -> "h" [] ch = "A" -> "a" [] ch = "I" -> "i"
      [] OTHER -> ch

Upper(ch) ==
    CASE ch = "s" -> "S" [] ch = "e" -> "E" [] ch = "o" -> "O" [] ch = "t" -> "T"
      [] ch = "l" -> "L" [] ch = "h" -> "H" [] ch = "a" -> "A" [] ch = "i" -> "I"
      [] OTHER -> ch

LowerToken(t) == [k \in DOMAIN t |-> Lower(t[k])]

\* str.title on one word: first character upper case, the rest lower case
TitleToken(t) == [k \in DOMAIN t |-> IF k = 1 THEN Upper(t[k]) ELSE Lower(t[k])]

LowerText(text) == [k \in DOMAIN text |-> LowerToken(text[k])]

TitleText(text) == [k \in DOMAIN text |-> TitleToken(text[k])]

\* the tokens the keyword texts are made of: "seo", "SEO", "tool", the stop
\* word "the" and the two-character "ai"
LabelTokens ==
    {<<"s", "e", "o">>, <<"S", "E", "O">>, <<"t", "o", "o", "l">>,
     <<"t", "h", "e">>, <<"a", "i">>}

\* the members of stop_words among the tokens in use
StopWords == {<<"t", "h", "e">>}

\* texts of no, one or two tokens
KeywordTexts == {<<>>} \cup {<<t>> : t \in LabelTokens}
                    \cup {<<t, u>> : t \in LabelTokens, u \in LabelTokens}

\* word not in stop_words and len(word) > 2
Qualifies(word) == word \notin StopWords /\ Len(word) > 2

\* the lower-cased tokens of all keyword texts that are counted, in order
CountedWords(kws) ==
    SelectSeq(Concat([p \in DOMAIN kws |-> LowerText(kws[p].keyword)]), Qualifies)

\* the keys of word_counts in insertion order
RECURSIVE FirstOccurrences(_, _)
FirstOccurrences(ws, seen) ==
    IF ws = <<>> THEN <<>>
    ELSE IF Head(ws) \in seen THEN FirstOccurrences(Tail(ws), seen)
    ELSE <<Head(ws)>> \o FirstOccurrences(Tail(ws), seen \cup {Head(ws)})

WordCount(ws, w) == Card({k \in DOMAIN ws : ws[k] = w})

\* sorted(word_counts.items(), key=count, reverse=True)[:2]: the sort is
\* stable, so among equal counts the word inserted first comes first
TopTwo(ws) ==
    LET keys == FirstOccurrences(ws, {})
        first == ArgMax([k \in DOMAIN keys |-> WordCount(ws, keys[k])])
        rest == SelectSeq(keys, LAMBDA w : w # keys[first])
        second == ArgMax([k \in DOMAIN rest |-> WordCount(ws, rest[k])])
    IN  IF keys = <<>> THEN <<>>
        ELSE IF rest = <<>> THEN <<keys[first]>>
        ELSE <<keys[first], rest[second]>>

\* _generate_cluster_label: the label as the list of its tokens
GenerateClusterLabel(kws) ==
    IF CountedWords(kws) # <<>>
    THEN TitleText(TopTwo(CountedWords(kws)))
    ELSE TitleText(kws[1].keyword)

InitLabel ==
    /\ entry = Labeler
    /\ pc = "start"
    /\ \E n \in 1..MaxTexts : keywords \in [1..n -> [keyword : KeywordTexts]]
    /\ method = "" /\ n_clusters = None /\ vocabulary = 0
    /\ labels = <<>> /\ clusters = <<>> /\ semantic = <<>> /\ cluster_groups = <<>>
    /\ hierarchy = None /\ topic_model = None /\ metrics = None
    /\ outcome = "running" /\ error = NoError
    /\ grouping = NoGrouping /\ rerun = NoRerun
    /\ distance_threshold = None
    /\ calls = NoCalls /\ next_id = 1 /\ est = NoEst /\ result = None

GenerateLabel ==
    /\ entry = Labeler /\ pc = "start"
    /\ result' = [label |-> GenerateClusterLabel(keywords)]
    /\ pc' = "done" /\ outcome' = "returned"
    /\ UNCHANGED <<grouping, rerun, distance_threshold, entry, method, n_clusters, keywords, labels,
                   clusters, semantic, cluster_groups, hierarchy, topic_model,
                   metrics, error, calls, next_id, est, vocabulary>>

NextLabel == GenerateLabel

SpecLabel == InitLabel /\ [][NextLabel]_vars

\* the counted words with the largest count
MostFrequent(ws) ==
    {w \in Range(ws) : \A v \in Range(ws) : WordCount(ws, v) <= WordCount(ws, w)}

\* C17: for a non-empty list of cluster keywords the label is a non-empty
\* string that contains, ignoring case, the most frequent token that is
\* longer than 2 characters and not a stop word; when no token qualifies the
\* label is (ignoring case) the first keyword's text.
C17_Claim ==
    (entry = Labeler /\ pc = "done") =>
        /\ result.label # <<>>
        /\ CountedWords(keywords) # <<>> =>
              \E w \in MostFrequent(CountedWords(keywords)) :
                  w \in Range(LowerText(result.label))
        /\ CountedWords(keywords) = <<>> =>
              LowerText(result.label) = LowerText(keywords[1].keyword)

(***************************************************************************)
(* Two engine runs on the same batch.  The libraries are seeded             *)
(* (random_state=42) and the embeddings identical, so in the second run     *)
(* AgglomerativeClustering, the estimator's KMeans and the decomposition    *)
(* answer as they did in the first: the same label array, the same dominant *)
(* topics, the same centroids.  The ids are fresh (uuid4), and the records  *)
(* are either the objects the first run wrote on or fresh copies.           *)
(***************************************************************************)
\* the loop of _hybrid_clustering in the second run, from cluster i on;
\* first is the cluster list of the first run, whose keyword records hold
\* the dominant topic of each refined keyword
RECURSIVE RerunRefine(_, _, _, _, _)
RerunRefine(first, cls, kws, nid, i) ==
    IF i > Len(cls) THEN [clusters |-> <<>>, keywords |-> kws, next_id |-> nid]
    ELSE LET cluster == cls[i]
             cluster_keywords == ClusterKeywords(kws, cluster)
         IN  IF Len(cluster_keywords) > REFINE_MIN_SIZE
             THEN LET l == [j \in DOMAIN cluster_keywords |->
                               keywords[cluster_keywords[j]].topic_id]
                      top_words == IF first[i].sub_topics # <<>>
                                   THEN first[i].sub_topics[1].topic_words ELSE 1
                      topic_clusters ==
                          CreateTopicClusters(cluster_keywords, l, top_words, nid)
                      rest == RerunRefine(first, cls,
                                          AssignKeywords(kws, topic_clusters),
                                          nid + Len(topic_clusters), i + 1)
                  IN  [rest EXCEPT !.clusters =
                          <<RefineClusterWithTopics(cluster, topic_clusters)>> \o @]
             ELSE LET rest == RerunRefine(first, cls, kws, nid, i + 1)
                  IN  [rest EXCEPT !.clusters = <<cluster>> \o @]

\* the second run of a run that returned, on the records kws
SecondRun(kws) ==
    LET cls == CreateClusterObjects(labels, next_id)
        assigned == AssignKeywords(kws, cls)
        refined == IF Strategy(method) = "hybrid"
                   THEN RerunRefine(clusters, cls, assigned, next_id + Len(cls), 1)
                   ELSE [clusters |-> cls, keywords |-> assigned,
                         next_id |-> next_id + Len(cls)]
    IN  [ran       |-> TRUE,
         clusters  |-> refined.clusters,
         keywords  |-> refined.keywords,
         hierarchy |-> BuildClusterHierarchy(refined.clusters, cluster_groups),
         outcome   |-> IF ScoresRaise(ScoredRows(refined.keywords, refined.clusters))
                       THEN "raised" ELSE "returned"]

Rerun ==
    /\ entry = Engine /\ pc = "done" /\ outcome = "returned"
    /\ ~rerun.ran
    /\ \E same_objects \in BOOLEAN :
          rerun' = SecondRun(IF same_objects THEN keywords ELSE FreshKeywords(N))
    /\ UNCHANGED <<grouping, distance_threshold, entry, pc, method, n_clusters, keywords, labels,
                   clusters, semantic, cluster_groups, hierarchy, topic_model,
                   metrics, outcome, error, calls, next_id, est, vocabulary, result>>

NextRerun == Next \/ Rerun

SpecRerun == InitEngine /\ [][NextRerun]_vars

\* the keyword lists of the sub-topics of a cluster
SubTopicMembers(c) == [j \in DOMAIN c.sub_topics |-> c.sub_topics[j].keywords]

\* node a of both hierarchies has the same level and size and names, child
\* by child, clusters at the same place of the two cluster lists
SameNode(a) ==
    /\ rerun.hierarchy.nodes[a].level = hierarchy.nodes[a].level
    /\ rerun.hierarchy.nodes[a].size = hierarchy.nodes[a].size
    /\ DOMAIN rerun.hierarchy.nodes[a].children = DOMAIN hierarchy.nodes[a].children
    /\ \A b \in DOMAIN hierarchy.nodes[a].children :
          \E i \in DOMAIN clusters :
              /\ hierarchy.nodes[a].children[b] = clusters[i].id
              /\ rerun.hierarchy.nodes[a].children[b] = rerun.clusters[i].id

MeanDotExceeds(g, h, threshold) ==
    Dot(VecSum([a \in DOMAIN g |-> grouping.centroids[g[a]]]),
        VecSum([a \in DOMAIN h |-> grouping.centroids[h[a]]]))
        > threshold * Len(g) * Len(h)

\* the items (groups of the level below) that group G took in, in input order
Absorbed(below, G) ==
    SortedSeq({b \in DOMAIN below : Range(below[b]) \subseteq Range(G)})

\* a pass over the items of below that produced above: the seed of a group
\* is its earliest item, groups are seeded in input order, a group lists its
\* seed first, every other item of a group matches its seed, and no item
\* matches the seed of an earlier group
FirstMatchWins(below, above, threshold) ==
    /\ \A a \in DOMAIN above :
          LET took == Absorbed(below, above[a])
          IN  /\ took # <<>>
              /\ above[a] = Concat([k \in DOMAIN took |-> below[took[k]]])
              /\ \A k \in 2..Len(took) :
                    MeanDotExceeds(below[took[1]], below[took[k]], threshold)
              /\ \A e \in 1..(a - 1) : \A k \in DOMAIN took :
                    /\ Absorbed(below, above[e])[1] < took[1]
                    /\ ~MeanDotExceeds(below[Absorbed(below, above[e])[1]],
                                       below[took[k]], threshold)

\* C21: within one grouping pass groups are seeded in input order and an
\* item joins the group of the earliest seed whose centroid has with its own
\* a dot product strictly greater than the threshold (0.7 over clusters,
\* 0.6 over groups); members of a group need not be similar to each other.
C21_FirstMatchWins ==
    (entry = Grouper /\ pc = "done") =>
        /\ cluster_groups # <<>> =>
              FirstMatchWins([i \in DOMAIN clusters |-> <<i>>], cluster_groups[1],
                             GROUP_THRESHOLD)
        /\ \A l \in 2..Len(cluster_groups) :
              FirstMatchWins(cluster_groups[l - 1], cluster_groups[l],
                             REGROUP_THRESHOLD)

C21_Witness ==
    /\ entry = Grouper /\ pc = "done"
    /\ Len(cluster_groups) = 2
    /\ cluster_groups[2] = <<(<<1, 2, 3>>)>>
    /\ ~MeanDotExceeds(<<2>>, <<3>>, REGROUP_THRESHOLD)
    /\ MeanDotExceeds(<<1>>, <<2>>, REGROUP_THRESHOLD)

(***************************************************************************)
(* Parent and child links of the returned hierarchy.                       *)
(***************************************************************************)
\* the node that _build_cluster_hierarchy made for group a of level l
NodeOf(h, levels, l, a) ==
    h.nodes[SeqSum([m \in 1..(l - 1) |-> Len(levels[m])]) + a]

\* C22: a node of level 1 lists the ids of the clusters of its group; a
\* node of level L >= 2 has one child per node of level L-1 that was merged
\* into it, and its size is the sum of the sizes of those nodes.
C22_Claim ==
    HierarchyReturned =>
        \A l \in DOMAIN cluster_groups : \A a \in DOMAIN cluster_groups[l] :
            LET node  == NodeOf(hierarchy, cluster_groups, l, a)
                group == cluster_groups[l][a]
                took  == IF l = 1 THEN <<>> ELSE Absorbed(cluster_groups[l - 1], group)
            IN  /\ node.level = l
                /\ l = 1 =>
                      /\ node.children = [b \in DOMAIN group |-> clusters[group[b]].id]
                      /\ node.size = SeqSum([b \in DOMAIN group |-> clusters[group[b]].size])
                /\ l >= 2 =>
                      /\ Len(node.children) = Len(took)
                      /\ node.size = SeqSum([k \in DOMAIN took |->
                             NodeOf(hierarchy, cluster_groups, l - 1, took[k]).size])

\* C23: the children of the root are exactly the nodes of the topmost level
\* and the level of the root is strictly greater than the level of every
\* other node.
C23_Claim ==
    HierarchyReturned =>
        /\ Range(hierarchy.root.children) =
              {hierarchy.nodes[a].id : a \in
                  {b \in DOMAIN hierarchy.nodes :
                      hierarchy.nodes[b].level = Len(cluster_groups)}}
        /\ \A a \in DOMAIN hierarchy.nodes :
              hierarchy.root.level > hierarchy.nodes[a].level

(***************************************************************************)
(* The two candidates of _estimate_optimal_clusters.                       *)
(***************************************************************************)
EstimatorRan ==
    /\ entry = "_estimate_optimal_clusters" /\ pc = "done"
    /\ (IF est.n \div 5 < 20 THEN est.n \div 5 ELSE 20) >= 2
    /\ ~est.fails

\* C24: when the candidate range is feasible and no trial raises, the k
\* returned is the smaller of the elbow candidate and the silhouette
\* candidate, and the silhouette candidate is the smallest candidate whose
\* mean silhouette is maximal.
C24_SmallerCandidate ==
    EstimatorRan =>
        LET upper == IF est.n \div 5 < 20 THEN est.n \div 5 ELSE 20
            best  == est.best_silhouette_k
        IN  /\ best \in 2..upper
            /\ \A k \in 2..upper :
                  /\ est.silhouettes[k - 1] <= est.silhouettes[best - 1]
                  /\ est.silhouettes[k - 1] = est.silhouettes[best - 1] => best <= k
            /\ est.k \in {est.elbow_k, best}
            /\ est.k <= est.elbow_k /\ est.k <= best

C24_Witness ==
    /\ EstimatorRan
    /\ est.n = 20
    /\ est.inertias = <<2, 0, 0>>
    /\ est.silhouettes = <<1, 2, 2>>
    /\ est.elbow_k = 4 /\ est.best_silhouette_k = 3 /\ est.k = 3

\* inertia(k-1) - 2*inertia(k) + inertia(k+1), inertia(2) being inertias[1]
Curvature(inertias, k) == inertias[k - 2] - 2 * inertias[k - 1] + inertias[k]

\* C25: over at least 3 candidate cluster counts the elbow candidate is the
\* candidate k at which the discrete second derivative of inertia is
\* maximal.
C25_Claim ==
    (EstimatorRan /\ Len(est.inertias) >= 3) =>
        LET inner == 3..Len(est.inertias)
        IN  /\ est.elbow_k \in inner
            /\ \A k \in inner :
                  Curvature(est.inertias, k) <= Curvature(est.inertias, est.elbow_k)

(***************************************************************************)
(* The refinement loop of the hybrid strategy.                             *)
(***************************************************************************)
PastRefinement ==
    /\ entry = Engine /\ Strategy(method) = "hybrid"
    /\ pc \notin {"embed", "assign", "refine"}
    /\ error.stage \notin {"embed", "assign", "refine"}

\* C26: in the hybrid strategy a semantic cluster is refined, with between
\* one and min(3, size div 2) sub-topics, exactly when it has more than 5
\* members; a cluster of 5 or fewer members is passed on as it is, with no
\* sub_topics; the refined list has the clusters of the semantic list, in
\* the same order and number.
C26_RefinedIffLarge ==
    (entry = Engine /\ Strategy(method) = "hybrid") =>
        /\ Len(clusters) <= Len(semantic)
        /\ PastRefinement => Len(clusters) = Len(semantic)
        /\ \A i \in DOMAIN clusters :
              /\ clusters[i].refined <=> semantic[i].size > 5
              /\ ~clusters[i].refined => clusters[i] = semantic[i]
              /\ clusters[i].refined =>
                    /\ [clusters[i] EXCEPT !.refined = FALSE, !.sub_topics = <<>>]
                          = semantic[i]
                    /\ Len(clusters[i].sub_topics) >= 1
                    /\ Len(clusters[i].sub_topics) <= 3
                    /\ 2 * Len(clusters[i].sub_topics) <= semantic[i].size

C26_Witness ==
    /\ PastRefinement /\ pc = "done" /\ outcome = "returned"
    /\ Len(clusters) = 2
    /\ semantic[1].size = 6 /\ clusters[1].refined /\ Len(clusters[1].sub_topics) = 3
    /\ semantic[2].size = 4 /\ ~clusters[2].refined

(***************************************************************************)
(* The hierarchical assigner called with a distance threshold.             *)
(***************************************************************************)
\* C28: in a hierarchical run on two or more keywords with a distance
\* threshold and no n_clusters, once the embeddings are there the assigner
\* does not invoke the estimator and the clustering step, given the
\* threshold alone, does not reject its arguments.
C28_Claim ==
    (/\ entry = Engine /\ Strategy(method) = "hierarchical"
     /\ n_clusters = None /\ distance_threshold # None
     /\ N >= 2
     /\ pc \notin {"embed", "assign"} /\ error.stage # "embed") =>
        /\ calls.estimator = 0
        /\ ~(error.stage = "assign" /\ error.kind = "ValueError")

(***************************************************************************)
(* The order of the stages of an engine run.                               *)
(***************************************************************************)
\* one step of a run: to the next stage, or out of the run with an error
StageStep ==
    \/ pc' = "done" /\ outcome' = "raised"
    \/ pc = "embed" /\ pc' = "assign"
    \/ pc = "assign" /\ pc' = "refine" /\ Strategy(method) = "hybrid"
    \/ pc = "assign" /\ pc' = "hierarchy" /\ Strategy(method) # "hybrid"
    \/ pc = "refine" /\ pc' = "refine" /\ Len(clusters') < Len(semantic')
    \/ pc = "refine" /\ pc' = "hierarchy"
    \/ pc = "hierarchy" /\ pc' = "topics"
    \/ pc = "topics" /\ pc' = "metrics"
    \/ pc = "metrics" /\ pc' = "done" /\ outcome' = "returned"

\* C27: an engine run goes through embedding, assignment (with, for hybrid,
\* the refinement of every semantic cluster), hierarchy building,
\* topic-model generation and metrics in this order; the hierarchy builder
\* starts only when no refinement is pending; a run returns only from the
\* metrics stage, and until then there is no result.
C27_StageOrder ==
    /\ [][entry = Engine => StageStep]_vars
    /\ []((entry = Engine /\ pc = "hierarchy" /\ Strategy(method) = "hybrid")
             => Len(clusters) = Len(semantic))
    /\ []((entry = Engine /\ outcome # "returned") => result = None)

C27_Witness ==
    /\ entry = Engine /\ pc = "done" /\ outcome = "returned"
    /\ Strategy(method) = "hybrid"
    /\ Len(semantic) = 2 /\ Len(clusters) = 2
    /\ calls.embed = 2 /\ calls.clustering = 1 /\ calls.estimator = 1

(***************************************************************************)
(* What a run scores, and what a failed run leaves behind.                 *)
(***************************************************************************)
\* C29: in a returned hierarchical run the embedding rows scored under a
\* cluster's label are the batch rows of the cluster's member keywords (row
\* p of the batch embeddings belongs to the keyword at batch position p).
C29_Claim ==
    (RunDone /\ outcome = "returned" /\ Strategy(method) = "hierarchical") =>
        \A i \in DOMAIN clusters :
            /\ metrics.scored[i].label = clusters[i].id
            /\ Range(metrics.scored[i].rows) = Range(clusters[i].members)

\* C30: a run that raises, at whatever stage, leaves every keyword record
\* as it was before the call, with no cluster_id, cluster_label or topic_id
\* set.
C30_Claim ==
    (RunDone /\ outcome = "raised") => keywords = FreshKeywords(N)

=============================================================================
